---- MODULE Spec2Model ----
(***************************************************************************)
(* A model of the mio echo server: the Server (src/src/server.rs) with its *)
(* Slab of Connections (src/src/connection.rs), driven by an event loop    *)
(* that registers sockets edge-triggered and oneshot.                      *)
(*                                                                         *)
(* One step of the model is one callback of the event loop (ready) or one  *)
(* step of the environment: a client connects, a client sends a burst of   *)
(* bytes, the event loop polls and reports an event.                       *)
(***************************************************************************)
EXTENDS Integers, Sequences, FiniteSets, TLC

\* ------------------------------------------------------------------------
\* Program constants
\* ------------------------------------------------------------------------

\* server.rs:86, the token of the listening socket
ServerToken == 1

\* server.rs:89, the first token the Slab hands out
SlabOffset == 2


\* ------------------------------------------------------------------------
\* Bounds of the model
\* ------------------------------------------------------------------------

\* Size of tmp_buffer, the chunk one read fills.  The program reads chunks
\* of 1024 bytes (connection.rs:41); the model reads small chunks, so that
\* bursts of less than a chunk, of exactly a chunk and of more than a chunk
\* are short sequences.
ChunkSize == 4

\* Number of slots of the Slab.  The program asks for 16384 (server.rs:89);
\* the model keeps the table small so that "full" is reachable.
Capacity == 2

\* Total number of bursts the clients send in one run.
MaxSends == 2

\* Number of connection attempts that may wait on the listening socket.
MaxBacklog == 1

\* Number of messages a client lets the server queue before it waits for
\* an echo, in the runs in which the clients send without end.
MaxQueue == 2

\* Total number of connection attempts in one run: enough to fill the table
\* and to be refused once, or to reuse a token.
MaxAttempts == Capacity + 1

\* ------------------------------------------------------------------------
\* Bytes, bursts, event sets
\* ------------------------------------------------------------------------

Rep(n, b) == [i \in 1..n |-> b]

\* The bursts the clients send: "AA" and "BB", one byte that is no UTF-8
\* (0xFF), a burst that needs two reads, and a burst of exactly one chunk.
AA == <<65, 65>>
BB == <<66, 66>>
Bursts == { AA, BB, <<255>>,
            Rep(ChunkSize + 1, 65), Rep(ChunkSize, 66) }

READABLE == "readable"
WRITABLE == "writable"
ERROR == "error"
HUP == "hup"

Last(s) == s[Len(s)]
Front(s) == SubSeq(s, 1, Len(s) - 1)
Min(a, b) == IF a < b THEN a ELSE b
Range(q) == { q[i] : i \in 1..Len(q) }

\* ------------------------------------------------------------------------
\* String::from_utf8 (connection.rs:70): is the byte sequence well-formed
\* UTF-8?  A byte in 0x80..0xBF is a continuation byte; every other byte
\* must start a character of Width bytes, followed by exactly its
\* continuation bytes.
\* ------------------------------------------------------------------------

IsCont(x) == x >= 128 /\ x <= 191

Width(x) ==
    IF x <= 127 THEN 1
    ELSE IF x >= 194 /\ x <= 223 THEN 2
    ELSE IF x >= 224 /\ x <= 239 THEN 3
    ELSE IF x >= 240 /\ x <= 244 THEN 4
    ELSE 0

SecondOk(lead, x) ==
    IF lead = 224 THEN x >= 160 /\ x <= 191
    ELSE IF lead = 237 THEN x >= 128 /\ x <= 159
    ELSE IF lead = 240 THEN x >= 144 /\ x <= 191
    ELSE IF lead = 244 THEN x >= 128 /\ x <= 143
    ELSE IsCont(x)

from_utf8_ok(b) ==
    /\ (Len(b) > 0 => ~IsCont(b[1]))
    /\ \A i \in 1..Len(b) :
          ~IsCont(b[i]) =>
             LET w == Width(b[i]) IN
             /\ w > 0
             /\ i + w - 1 <= Len(b)
             /\ \A k \in 1..(w - 1) : IsCont(b[i + k])
             /\ (w > 1 => SecondOk(b[i], b[i + 1]))
             /\ (i + w <= Len(b) => ~IsCont(b[i + w]))

\* ------------------------------------------------------------------------
\* Connection (connection.rs)
\*
\* A connection is a record: token, interest, send_queue as in the struct,
\* and its socket: inbuf (bytes received and not yet read), reg (the state
\* of the socket's oneshot registration: "none", "armed", "fired"),
\* regToken and regInterest (what was last submitted to the event loop).
\* ------------------------------------------------------------------------

\* A new connection that asks for writable from the start.
Connection_new_writable(token) ==
    [ token |-> token, interest |-> {HUP, WRITABLE}, send_queue |-> <<>>,
      inbuf |-> <<>>, reg |-> "none", regToken |-> 0, regInterest |-> {} ]

Connection_new(token) ==
    [ token |-> token, interest |-> {HUP}, send_queue |-> <<>>,
      inbuf |-> <<>>, reg |-> "none", regToken |-> 0, regInterest |-> {} ]

\* A drain loop that takes "no data ready" for the end of the data.
RECURSIVE drain_wouldblock_ends(_, _, _)
drain_wouldblock_ends(inbuf, buffer_list, emptyRead) ==
    IF inbuf = <<>>
    THEN [ ok |-> TRUE, buffer_list |-> buffer_list, inbuf |-> inbuf ]
    ELSE LET len == Min(Len(inbuf), ChunkSize)
             got == buffer_list \o SubSeq(inbuf, 1, len)
             rest == SubSeq(inbuf, len + 1, Len(inbuf))
         IN IF len < ChunkSize
            THEN [ ok |-> TRUE, buffer_list |-> got, inbuf |-> rest ]
            ELSE drain_wouldblock_ends(rest, got, emptyRead)

\* The drain loop of readable (connection.rs:46-67).  emptyRead is what a
\* read finds when nothing is left in the socket: "wouldblock" (an Err) or
\* "eof" (Ok(0), the peer has shut down its side).
RECURSIVE drain(_, _, _)
drain(inbuf, buffer_list, emptyRead) ==
    IF inbuf = <<>>
    THEN IF emptyRead = "eof"
         THEN [ ok |-> TRUE, buffer_list |-> buffer_list, inbuf |-> inbuf ]
         ELSE [ ok |-> FALSE, buffer_list |-> buffer_list, inbuf |-> inbuf ]
    ELSE LET len == Min(Len(inbuf), ChunkSize)
             got == buffer_list \o SubSeq(inbuf, 1, len)
             rest == SubSeq(inbuf, len + 1, Len(inbuf))
         IN IF len < ChunkSize
            THEN [ ok |-> TRUE, buffer_list |-> got, inbuf |-> rest ]
            ELSE drain(rest, got, emptyRead)

\* send_message (connection.rs:117-121)
send_message(c, message) ==
    [ c EXCEPT !.send_queue = Append(@, message),
               !.interest = @ \cup {WRITABLE} ]

\* readable (connection.rs:34-79).  rdOk = FALSE: the first read fails with
\* an I/O error.  The result says whether readable returned Ok, whether it
\* panicked (the expect of line 70), and the connection afterwards.
readable(c, rdOk, emptyRead) ==
    IF ~rdOk
    THEN [ ok |-> FALSE, panic |-> FALSE, conn |-> c ]
    ELSE LET d == drain(c.inbuf, <<>>, emptyRead)
             c1 == [ c EXCEPT !.inbuf = d.inbuf ]
         IN IF ~d.ok
            THEN [ ok |-> FALSE, panic |-> FALSE, conn |-> c1 ]
            ELSE IF ~from_utf8_ok(d.buffer_list)
            THEN [ ok |-> FALSE, panic |-> TRUE, conn |-> c1 ]
            ELSE [ ok |-> TRUE, panic |-> FALSE,
                   conn |-> send_message(c1, d.buffer_list) ]

\* writable that leaves the interest as it is when the queue gets empty.
writable_keeps_interest(c, wrOk) ==
    IF c.send_queue = <<>>
    THEN [ ok |-> TRUE, conn |-> c, wrote |-> <<>> ]
    ELSE LET buffer == Last(c.send_queue)
             c1 == [ c EXCEPT !.send_queue = Front(@) ]
         IN IF ~wrOk
            THEN [ ok |-> FALSE, conn |-> c1, wrote |-> <<>> ]
            ELSE [ ok |-> TRUE, conn |-> c1, wrote |-> <<buffer>> ]

\* writable that writes every buffer of the queue in one call.
writable_flush_all(c, wrOk) ==
    IF c.send_queue = <<>>
    THEN [ ok |-> TRUE, conn |-> c, wrote |-> <<>> ]
    ELSE LET c1 == [ c EXCEPT !.send_queue = <<>> ]
         IN IF ~wrOk
            THEN [ ok |-> FALSE, conn |-> c1, wrote |-> <<>> ]
            ELSE [ ok |-> TRUE,
                   conn |-> [ c1 EXCEPT !.interest = @ \ {WRITABLE} ],
                   wrote |-> [ i \in 1..Len(c.send_queue) |->
                                 c.send_queue[Len(c.send_queue) + 1 - i] ] ]

\* writable that takes the oldest buffer of the queue.
writable_fifo(c, wrOk) ==
    IF c.send_queue = <<>>
    THEN [ ok |-> TRUE, conn |-> c, wrote |-> <<>> ]
    ELSE LET buffer == Head(c.send_queue)
             c1 == [ c EXCEPT !.send_queue = Tail(@) ]
         IN IF ~wrOk
            THEN [ ok |-> FALSE, conn |-> c1, wrote |-> <<>> ]
            ELSE [ ok |-> TRUE,
                   conn |-> IF c1.send_queue = <<>>
                            THEN [ c1 EXCEPT !.interest = @ \ {WRITABLE} ]
                            ELSE c1,
                   wrote |-> <<buffer>> ]

\* writable (connection.rs:83-114).  wrOk = FALSE: write_all fails.  wrote
\* is the sequence of buffers handed to the socket (none or one).
writable(c, wrOk) ==
    IF c.send_queue = <<>>
    THEN [ ok |-> TRUE, conn |-> c, wrote |-> <<>> ]
    ELSE LET buffer == Last(c.send_queue)
             c1 == [ c EXCEPT !.send_queue = Front(@) ]
         IN IF ~wrOk
            THEN [ ok |-> FALSE, conn |-> c1, wrote |-> <<>> ]
            ELSE [ ok |-> TRUE,
                   conn |-> IF c1.send_queue = <<>>
                            THEN [ c1 EXCEPT !.interest = @ \ {WRITABLE} ]
                            ELSE c1,
                   wrote |-> <<buffer>> ]

\* register that submits the interest as it is, without asking for readable.
Connection_register_no_readable(c, regOk) ==
    [ ok |-> regOk,
      conn |-> IF regOk
               THEN [ c EXCEPT !.reg = "armed", !.regToken = c.token,
                               !.regInterest = c.interest ]
               ELSE c ]

\* register (connection.rs:125-134)
Connection_register(c, regOk) ==
    LET c1 == [ c EXCEPT !.interest = @ \cup {READABLE} ]
    IN [ ok |-> regOk,
         conn |-> IF regOk
                  THEN [ c1 EXCEPT !.reg = "armed", !.regToken = c1.token,
                                   !.regInterest = c1.interest ]
                  ELSE c1 ]

\* reregister (connection.rs:137-144)
Connection_reregister(c, rrOk) ==
    [ ok |-> rrOk,
      conn |-> IF rrOk
               THEN [ c EXCEPT !.reg = "armed", !.regToken = c.token,
                               !.regInterest = c.interest ]
               ELSE c ]

\* close: deregisters the socket from the event loop and returns the
\* result of the deregistration.
Connection_close(c, deregOk) ==
    [ ok |-> deregOk,
      conn |-> IF deregOk THEN [ c EXCEPT !.reg = "none" ] ELSE c ]

\* ------------------------------------------------------------------------
\* Slab (mio::util::Slab as used in server.rs:89, 150, 166, 195, 204)
\*
\* entries maps the index of every occupied slot to its Connection, free is
\* the stack of vacated slots (the slot vacated last is reused first), used
\* is the number of slots that were ever occupied.  The token of slot idx
\* is idx + SlabOffset.
\* ------------------------------------------------------------------------

Slab_new == [ entries |-> [ i \in {} |-> Connection_new(0) ],
              free |-> <<>>, used |-> 0 ]

idx_to_token(idx) == idx + SlabOffset
token_to_idx(token) == token - SlabOffset

Slab_contains(slab, token) == token_to_idx(token) \in DOMAIN slab.entries

Slab_get(slab, token) == slab.entries[token_to_idx(token)]

Slab_put(slab, token, c) ==
    [ slab EXCEPT !.entries[token_to_idx(token)] = c ]

Slab_count(slab) == Cardinality(DOMAIN slab.entries)

Slab_tokens(slab) == { idx_to_token(i) : i \in DOMAIN slab.entries }

\* insert_with that does not look at the capacity.
Slab_insert_with_unbounded(slab) ==
    LET idx == IF slab.free # <<>> THEN Head(slab.free) ELSE slab.used
        token == idx_to_token(idx)
    IN [ some |-> TRUE, token |-> token,
         slab |-> [ entries |-> [ i \in DOMAIN slab.entries \cup {idx} |->
                                    IF i = idx THEN Connection_new(token)
                                    ELSE slab.entries[i] ],
                    free |-> IF slab.free # <<>> THEN Tail(slab.free)
                             ELSE slab.free,
                    used |-> IF slab.free # <<>> THEN slab.used
                             ELSE slab.used + 1 ] ]

\* insert_with that derives the token from the number of connections and
\* not from the slot.
Slab_insert_with_count_token(slab) ==
    IF slab.free = <<>> /\ slab.used = Capacity
    THEN [ some |-> FALSE, token |-> 0, slab |-> slab ]
    ELSE LET idx == IF slab.free # <<>> THEN Head(slab.free) ELSE slab.used
             token == idx_to_token(Cardinality(DOMAIN slab.entries))
         IN [ some |-> TRUE, token |-> idx_to_token(idx),
              slab |-> [ entries |-> [ i \in DOMAIN slab.entries \cup {idx} |->
                                         IF i = idx THEN Connection_new(token)
                                         ELSE slab.entries[i] ],
                         free |-> IF slab.free # <<>> THEN Tail(slab.free)
                                  ELSE slab.free,
                         used |-> IF slab.free # <<>> THEN slab.used
                                  ELSE slab.used + 1 ] ]

\* insert_with of a Slab whose tokens start at the token of the server.
Slab_insert_with_from_server(slab) ==
    IF slab.free = <<>> /\ slab.used = Capacity
    THEN [ some |-> FALSE, token |-> 0, slab |-> slab ]
    ELSE LET idx == IF slab.free # <<>> THEN Head(slab.free) ELSE slab.used
             token == idx + ServerToken
         IN [ some |-> TRUE, token |-> idx_to_token(idx),
              slab |-> [ entries |-> [ i \in DOMAIN slab.entries \cup {idx} |->
                                         IF i = idx THEN Connection_new(token)
                                         ELSE slab.entries[i] ],
                         free |-> IF slab.free # <<>> THEN Tail(slab.free)
                                  ELSE slab.free,
                         used |-> IF slab.free # <<>> THEN slab.used
                                  ELSE slab.used + 1 ] ]

\* insert_with (server.rs:150-154): None when no slot is left, else the
\* connection is built with the token of the slot it is put in.
Slab_insert_with(slab) ==
    IF slab.free = <<>> /\ slab.used = Capacity
    THEN [ some |-> FALSE, token |-> 0, slab |-> slab ]
    ELSE LET idx == IF slab.free # <<>> THEN Head(slab.free) ELSE slab.used
             token == idx_to_token(idx)
         IN [ some |-> TRUE, token |-> token,
              slab |-> [ entries |-> [ i \in DOMAIN slab.entries \cup {idx} |->
                                         IF i = idx THEN Connection_new(token)
                                         ELSE slab.entries[i] ],
                         free |-> IF slab.free # <<>> THEN Tail(slab.free)
                                  ELSE slab.free,
                         used |-> IF slab.free # <<>> THEN slab.used
                                  ELSE slab.used + 1 ] ]

\* remove (server.rs:166, 195)
Slab_remove(slab, token) ==
    IF ~Slab_contains(slab, token) THEN slab
    ELSE [ slab EXCEPT
             !.entries = [ i \in DOMAIN slab.entries \ {token_to_idx(token)} |->
                             slab.entries[i] ],
             !.free = <<token_to_idx(token)>> \o @ ]

\* ------------------------------------------------------------------------
\* Server (server.rs)
\*
\* The handlers work on a record w: connections (the Slab), run (FALSE once
\* event_loop.shutdown() was called), panicked (the process has panicked),
\* srvArmed (the registration of the listening socket is armed), backlog
\* (connection attempts waiting on the listening socket) and tr, the record
\* of what this call of ready did:
\*   subs      every interest set a connection submitted to the event loop,
\*             as <<token, interest, send_queue is not empty>>
\*   closes    every call of close_connection
\*   wrote     every buffer written to a socket, as <<token, buffer>>
\*   diag      the lines printed
\*   srvReregs number of calls of the server's reregister
\*   misses    tokens looked up in the Slab that were not there
\*   calls     the methods called, in the order of the calls
\*   pushed    number of calls of readable() that returned Ok
\*   popped    number of calls of writable() that found a buffer to take
\* ------------------------------------------------------------------------

NoTrace == [ subs |-> {}, closes |-> <<>>, wrote |-> <<>>, diag |-> <<>>,
             srvReregs |-> 0, misses |-> {}, calls |-> <<>>,
             pushed |-> 0, popped |-> 0 ]

Call(w, name) == [ w EXCEPT !.tr.calls = Append(@, name) ]

Submit(w, c) ==
    [ w EXCEPT !.tr.subs = @ \cup { <<c.token, c.interest, c.send_queue # <<>> >> } ]

Panic(w) == [ w EXCEPT !.panicked = TRUE ]

\* find_connection_by_token (server.rs:203-205): indexing the Slab with a
\* token that is not in it panics.
find_connection_by_token_ok(w, token) == Slab_contains(w.connections, token)

Miss(w, token) == Panic([ w EXCEPT !.tr.misses = @ \cup {token} ])

\* Server::reregister (server.rs:105-116)
Server_reregister(w, srvOk) ==
    LET w1 == Call([ w EXCEPT !.tr.srvReregs = @ + 1 ], "Server::reregister")
    IN IF srvOk THEN [ w1 EXCEPT !.srvArmed = TRUE ]
       ELSE [ w1 EXCEPT !.run = FALSE ]

\* close_connection that keeps the connection when the deregistration fails.
close_connection_keep_on_error(w, token, deregOk) ==
    IF token = ServerToken
    THEN [ w EXCEPT !.run = FALSE ]
    ELSE IF ~find_connection_by_token_ok(w, token) THEN Miss(w, token)
    ELSE LET r == Connection_close(Slab_get(w.connections, token), deregOk)
             s1 == Slab_put(w.connections, token, r.conn)
         IN IF r.ok
            THEN [ w EXCEPT !.connections = Slab_remove(s1, token),
                            !.tr.diag = @ \o << "Closed a connection" >> ]
            ELSE [ w EXCEPT !.connections = s1,
                            !.tr.diag = @ \o << "Could not deregister" >> ]

\* close_connection (server.rs:185-199)
close_connection(w, token, deregOk) ==
    IF token = ServerToken
    THEN [ w EXCEPT !.run = FALSE ]
    ELSE IF ~find_connection_by_token_ok(w, token) THEN Miss(w, token)
    ELSE LET r == Connection_close(Slab_get(w.connections, token), deregOk)
             s1 == Slab_put(w.connections, token, r.conn)
             d == (IF r.ok THEN <<>> ELSE << "Could not deregister" >>)
                  \o << "Closed a connection" >>
         IN [ w EXCEPT !.connections = Slab_remove(s1, token),
                       !.tr.diag = @ \o d ]

\* A call of close_connection, recorded in tr.closes with the table and
\* the loop before and after the call.
Closing(w, token, deregOk) ==
    LET w1 == close_connection(Call(w, "close_connection"), token, deregOk)
    IN [ w1 EXCEPT !.tr.closes = Append(@,
            [ token |-> token, deregOk |-> deregOk,
              before |-> w.connections, after |-> w1.connections,
              runBefore |-> w.run, runAfter |-> w1.run,
              panicked |-> w1.panicked ]) ]

\* accept that returns on an accept error without reregistering.
accept_no_rearm(w, acc, regOk, srvOk) ==
    IF acc = "none"
    THEN Server_reregister([ w EXCEPT !.backlog = 0 ], srvOk)
    ELSE IF acc = "err"
    THEN w
    ELSE LET w0 == [ w EXCEPT !.backlog = @ - 1 ]
             ins == Slab_insert_with(w0.connections)
         IN IF ins.some
            THEN LET r == Connection_register(Slab_get(ins.slab, ins.token), regOk)
                     s1 == Slab_put(ins.slab, ins.token, r.conn)
                     w1 == Submit([ w0 EXCEPT !.connections = s1 ], r.conn)
                 IN IF r.ok
                    THEN Server_reregister(w1, srvOk)
                    ELSE Server_reregister(
                            [ w1 EXCEPT !.connections = Slab_remove(s1, ins.token) ],
                            srvOk)
            ELSE Server_reregister(
                    [ w0 EXCEPT !.tr.diag = Append(@, "Slab is full") ], srvOk)

\* accept that leaves the listening socket disarmed when the table is full.
accept_no_rearm_when_full(w, acc, regOk, srvOk) ==
    IF acc = "none"
    THEN Server_reregister([ w EXCEPT !.backlog = 0 ], srvOk)
    ELSE IF acc = "err"
    THEN Server_reregister(w, srvOk)
    ELSE LET w0 == [ w EXCEPT !.backlog = @ - 1 ]
             ins == Slab_insert_with(w0.connections)
         IN IF ins.some
            THEN LET r == Connection_register(Slab_get(ins.slab, ins.token), regOk)
                     s1 == Slab_put(ins.slab, ins.token, r.conn)
                     w1 == Submit([ w0 EXCEPT !.connections = s1 ], r.conn)
                 IN IF r.ok
                    THEN Server_reregister(w1, srvOk)
                    ELSE Server_reregister(
                            [ w1 EXCEPT !.connections = Slab_remove(s1, ins.token) ],
                            srvOk)
            ELSE [ w0 EXCEPT !.tr.diag = Append(@, "Slab is full") ]

\* accept that keeps the connection when its registration fails.
accept_no_rollback(w, acc, regOk, srvOk) ==
    IF acc = "none"
    THEN Server_reregister([ w EXCEPT !.backlog = 0 ], srvOk)
    ELSE IF acc = "err"
    THEN Server_reregister(w, srvOk)
    ELSE LET w0 == [ w EXCEPT !.backlog = @ - 1 ]
             ins == Slab_insert_with(w0.connections)
         IN IF ins.some
            THEN LET r == Connection_register(Slab_get(ins.slab, ins.token), regOk)
                     s1 == Slab_put(ins.slab, ins.token, r.conn)
                     w1 == Submit([ w0 EXCEPT !.connections = s1 ], r.conn)
                 IN Server_reregister(w1, srvOk)
            ELSE Server_reregister(
                    [ w0 EXCEPT !.tr.diag = Append(@, "Slab is full") ], srvOk)

\* accept (server.rs:120-179).  acc is the result of the accept call on the
\* listening socket: "some" (a socket), "none" (nothing is waiting any
\* more) or "err"; regOk the result of registering the new connection.
accept(w, acc, regOk, srvOk) ==
    IF acc = "none"
    THEN Server_reregister([ w EXCEPT !.backlog = 0 ], srvOk)
    ELSE IF acc = "err"
    THEN Server_reregister(w, srvOk)
    ELSE LET w0 == [ w EXCEPT !.backlog = @ - 1 ]
             ins == Slab_insert_with(w0.connections)
         IN IF ins.some
            THEN LET r == Connection_register(Slab_get(ins.slab, ins.token), regOk)
                     s1 == Slab_put(ins.slab, ins.token, r.conn)
                     w1 == Submit([ w0 EXCEPT !.connections = s1 ], r.conn)
                 IN IF r.ok
                    THEN Server_reregister(w1, srvOk)
                    ELSE Server_reregister(
                            [ w1 EXCEPT !.connections = Slab_remove(s1, ins.token) ],
                            srvOk)
            ELSE Server_reregister(
                    [ w0 EXCEPT !.tr.diag = Append(@, "Slab is full") ], srvOk)

\* The writable branch of ready (server.rs:34-51)
ready_writable(w, token, io) ==
    IF token = ServerToken THEN Panic(w)
    ELSE IF ~find_connection_by_token_ok(w, token) THEN Miss(w, token)
    ELSE LET c == Slab_get(w.connections, token)
             r == writable(c, io.wrOk)
             w1 == [ Call(w, "writable") EXCEPT
                       !.connections = Slab_put(@, token, r.conn),
                       !.tr.wrote = @ \o [ i \in 1..Len(r.wrote) |->
                                             <<token, r.wrote[i]>> ],
                       !.tr.popped = @ + (IF c.send_queue # <<>> THEN 1 ELSE 0) ]
         IN IF ~r.ok THEN Closing(w1, token, io.deregOk)
            ELSE LET rr == Connection_reregister(r.conn, io.rrOkW)
                     w2 == Submit([ Call(w1, "reregister") EXCEPT !.connections =
                                       Slab_put(@, token, rr.conn) ], rr.conn)
                 IN IF rr.ok THEN w2
                    ELSE Closing(w2, token, io.deregOk)

\* The readable branch of ready for a connection (server.rs:61-72)
ready_readable(w, token, io) ==
    IF ~find_connection_by_token_ok(w, token) THEN Miss(w, token)
    ELSE LET c == Slab_get(w.connections, token)
             r == readable(c, io.rdOk, io.emptyRead)
             w1 == [ Call(w, "readable") EXCEPT
                       !.connections = Slab_put(@, token, r.conn),
                       !.tr.pushed = @ + (IF r.ok THEN 1 ELSE 0) ]
         IN IF r.panic THEN Panic(w1)
            ELSE IF ~r.ok THEN Closing(w1, token, io.deregOk)
            ELSE LET w1r == [ w1 EXCEPT !.tr.diag = Append(@, "Received") ]
                     rr == Connection_reregister(r.conn, io.rrOkR)
                     w2 == Submit([ Call(w1r, "reregister") EXCEPT !.connections =
                                       Slab_put(@, token, rr.conn) ], rr.conn)
                 IN IF rr.ok THEN w2
                    ELSE Closing(w2, token, io.deregOk)

\* ready that serves the writable and the readable event before it looks
\* at error and hangup.
ready_hup_last(w, token, events, io) ==
    LET w1 == IF WRITABLE \in events
              THEN ready_writable(w, token, io) ELSE w
        w2 == IF w1.panicked THEN w1
              ELSE IF READABLE \in events
              THEN IF token = ServerToken
                   THEN accept(Call(w1, "accept"), io.acc, io.regOk, io.srvOk)
                   ELSE ready_readable(w1, token, io)
              ELSE w1
    IN IF w2.panicked THEN w2
       ELSE IF ERROR \in events \/ HUP \in events
       THEN Closing(w2, token, io.deregOk)
       ELSE w2

\* ready (server.rs:25-74)
ready(w, token, events, io) ==
    IF ERROR \in events \/ HUP \in events
    THEN Closing(w, token, io.deregOk)
    ELSE LET w1 == IF WRITABLE \in events
                   THEN ready_writable(w, token, io) ELSE w
         IN IF w1.panicked THEN w1
            ELSE IF READABLE \in events
            THEN IF token = ServerToken
                 THEN accept(Call(w1, "accept"), io.acc, io.regOk, io.srvOk)
                 ELSE ready_readable(w1, token, io)
            ELSE w1

\* ------------------------------------------------------------------------
\* State
\* ------------------------------------------------------------------------

VARIABLES
    connections,  \* Server.connections, the Slab
    run,          \* the event loop has not been shut down
    panicked,     \* the process has panicked
    srvArmed,     \* the registration of the listening socket is armed
    backlog,      \* connection attempts waiting on the listening socket
    pending,      \* the tokens the last poll reported and ready was not
                  \* yet called for
    last,         \* the last call of ready, if it was the last step
    sends,        \* bursts sent so far
    attempts,     \* connection attempts so far
    balance       \* for every connection in the table: the calls of
                  \* readable() that returned Ok less the calls of
                  \* writable() that found a buffer to take

vars == << connections, run, panicked, srvArmed, backlog, pending, last,
           sends, attempts, balance >>

NoIO == [ wrOk |-> TRUE, rrOkW |-> TRUE, rdOk |-> TRUE, emptyRead |-> "wouldblock",
          rrOkR |-> TRUE, deregOk |-> TRUE, acc |-> "none", regOk |-> TRUE,
          srvOk |-> TRUE ]

NoLast == [ kind |-> "none", token |-> 0, events |-> {}, io |-> NoIO,
            pre |-> Slab_new, preRun |-> TRUE, preSrvArmed |-> TRUE,
            preBacklog |-> 0, tr |-> NoTrace ]

\* main (main.rs:16-19): the server is built and registered, the loop runs.
Init ==
    /\ connections = Slab_new
    /\ run = TRUE
    /\ panicked = FALSE
    /\ srvArmed = TRUE
    /\ backlog = 0
    /\ pending = {}
    /\ last = NoLast
    /\ sends = 0
    /\ attempts = 0
    /\ balance = [ t \in {} |-> 0 ]

\* The loop is blocked in poll.  The clients act while it is: ready is
\* called with what a socket is ready for at the time of the call, so bytes
\* that arrive between a poll and its call of ready are bytes that arrived
\* before the poll.
Polling == run /\ ~panicked /\ pending = {}

\* ------------------------------------------------------------------------
\* Environment
\* ------------------------------------------------------------------------

\* A client connects to the listening socket.
ClientConnect ==
    /\ Polling
    /\ attempts < MaxAttempts
    /\ backlog < MaxBacklog
    /\ backlog' = backlog + 1
    /\ attempts' = attempts + 1
    /\ last' = NoLast
    /\ UNCHANGED << connections, run, panicked, srvArmed, pending, sends, balance >>

\* The client of a connection sends a burst of bytes.
ClientSend ==
    /\ Polling
    /\ sends < MaxSends
    /\ \E token \in Slab_tokens(connections), B \in Bursts :
          /\ Slab_get(connections, token).inbuf = <<>>
          /\ connections' = Slab_put(connections, token,
                               [ Slab_get(connections, token) EXCEPT !.inbuf = B ])
    /\ sends' = sends + 1
    /\ last' = NoLast
    /\ UNCHANGED << run, panicked, srvArmed, backlog, pending, attempts, balance >>

\* The event sets the event loop can report for a socket: what the socket
\* is ready for among what its registration asks for, or an error or hangup
\* (reported whatever the interest is).
ReadyFor(c) ==
    (IF c.inbuf # <<>> /\ READABLE \in c.regInterest THEN {READABLE} ELSE {})
    \cup (IF WRITABLE \in c.regInterest THEN {WRITABLE} ELSE {})

ConnEventSets(c) ==
    (SUBSET ReadyFor(c) \ {{}}) \cup { {HUP}, {ERROR} \cup ReadyFor(c) }

ServerEventSets ==
    LET r == IF backlog > 0 THEN {READABLE} ELSE {}
    IN (SUBSET r \ {{}}) \cup { {HUP}, {ERROR} \cup r }

\* The registrations that are armed, by token.
ArmedTokens ==
    (IF srvArmed THEN {ServerToken} ELSE {})
    \cup { Slab_get(connections, t).regToken :
             t \in { u \in Slab_tokens(connections) :
                        Slab_get(connections, u).reg = "armed" } }

\* The event sets ready can be called with for a reported token: those
\* of the sockets whose registration under this token has fired.
EventSetsOf(token) ==
    IF token = ServerToken THEN ServerEventSets
    ELSE UNION { ConnEventSets(Slab_get(connections, t)) :
                   t \in { u \in Slab_tokens(connections) :
                              /\ Slab_get(connections, u).reg = "fired"
                              /\ Slab_get(connections, u).regToken = token } }

\* EventLoop::run (main.rs:19): a poll reports an armed registration, and
\* a oneshot registration that is reported is disarmed.  The loop calls
\* ready for the events of a poll one after the other and a call of ready
\* works on the connection of its own token only, so a poll that reports
\* several registrations is taken as so many polls that report one.
PollToken(token) ==
    /\ Polling
    /\ token \in ArmedTokens
    /\ pending' = {token}
    /\ srvArmed' = (srvArmed /\ token # ServerToken)
    /\ connections' =
         [ connections EXCEPT !.entries =
             [ i \in DOMAIN @ |->
                 IF @[i].reg = "armed" /\ @[i].regToken = token
                 THEN [ @[i] EXCEPT !.reg = "fired" ] ELSE @[i] ] ]
    /\ last' = NoLast
    /\ UNCHANGED << run, panicked, backlog, sends, attempts, balance >>

Poll == \E token \in ArmedTokens : PollToken(token)

\* The outcomes of the system calls a call of ready can make.  An outcome
\* is chosen only for a call this event set and these outcomes lead to; the
\* outcome of a call that is not made stays as in NoIO.
IOs(token, events) ==
    LET hup == ERROR \in events \/ HUP \in events
        conn == token # ServerToken
        srv == token = ServerToken
        w == ~hup /\ conn /\ WRITABLE \in events
        r == ~hup /\ conn /\ READABLE \in events
        a == ~hup /\ srv /\ READABLE \in events
        atEnd == /\ r /\ Slab_contains(connections, token)
                 /\ Len(Slab_get(connections, token).inbuf) % ChunkSize = 0
        B(cond) == IF cond THEN BOOLEAN ELSE {TRUE}
    IN { io \in [ wrOk : B(w), rrOkW : B(w), rdOk : B(r),
                  emptyRead : IF atEnd THEN {"wouldblock", "eof"}
                              ELSE {"wouldblock"},
                  rrOkR : B(r), deregOk : B(conn),
                  acc : IF a
                        THEN (IF backlog > 0 THEN {"some"} ELSE {}) \cup {"none", "err"}
                        ELSE {"none"},
                  regOk : B(a), srvOk : B(a) ] :
           /\ (~io.wrOk => io.rrOkW)
           /\ (~io.rdOk => io.rrOkR /\ io.emptyRead = "wouldblock")
           /\ (io.acc # "some" => io.regOk) }

\* Handler::ready (server.rs:25-74), called for the event a poll reported.
ReadyWith(token, events, io) ==
    LET w0 == [ connections |-> connections, run |-> run,
                panicked |-> FALSE, srvArmed |-> srvArmed,
                backlog |-> backlog, tr |-> NoTrace ]
        w == ready(w0, token, events, io)
    IN /\ (~io.deregOk => w.tr.closes # <<>>)
       /\ (~io.rrOkR => "Received" \in Range(w.tr.diag))
       /\ connections' = w.connections
       /\ run' = w.run
       /\ panicked' = w.panicked
       /\ srvArmed' = w.srvArmed
       /\ backlog' = w.backlog
       /\ pending' = pending \ {token}
       /\ last' = [ kind |-> "ready", token |-> token,
                    events |-> events, io |-> io,
                    pre |-> connections, preRun |-> run,
                    preSrvArmed |-> srvArmed,
                    preBacklog |-> backlog, tr |-> w.tr ]
       /\ balance' = [ t \in Slab_tokens(w.connections) |->
                         IF t \notin Slab_tokens(connections) THEN 0
                         ELSE IF t = token
                         THEN balance[t] + w.tr.pushed - w.tr.popped
                         ELSE balance[t] ]
       /\ UNCHANGED << sends, attempts >>

Ready ==
    /\ ~panicked
    /\ \E token \in pending :
         \E events \in EventSetsOf(token) :
            \E io \in IOs(token, events) : ReadyWith(token, events, io)

Next == ClientConnect \/ ClientSend \/ Poll \/ Ready

Spec == Init /\ [][Next]_vars

\* The scheduling of the loop: it calls ready for every event a poll has
\* reported, and a poll reports the listening socket when its registration
\* is armed and a connection attempt is waiting, whatever else it reports.
AcceptReady == PollToken(ServerToken) /\ backlog > 0

\* The runs in which the clients connect, hang up and fail, and send
\* nothing: the runs of the listening socket, under this scheduling.
AcceptNext == ClientConnect \/ Poll \/ Ready

AcceptSpec ==
    Init /\ [][AcceptNext]_vars /\ WF_vars(Ready) /\ SF_vars(AcceptReady)

\* ------------------------------------------------------------------------
\* The runs in which nothing fails and the clients send without end: no
\* system call returns an error, no peer hangs up, and a client sends "AA"
\* or "BB" whenever its last burst was read and no more than MaxQueue
\* messages wait for it; with MaxQueue messages waiting it takes what the
\* server writes, so that its socket is reported writable.  "AA" is sent
\* only while no "AA" is queued, so that an "AA" in a queue is one message
\* from the time it is queued to the time it is written.
\* ------------------------------------------------------------------------

ConnTokens == SlabOffset..(SlabOffset + Capacity - 1)

ClientStream ==
    /\ Polling
    /\ \E token \in Slab_tokens(connections), B \in {AA, BB} :
          LET c == Slab_get(connections, token) IN
          /\ c.inbuf = <<>>
          /\ Len(c.send_queue) <= MaxQueue
          /\ B = AA => AA \notin Range(c.send_queue)
          /\ connections' = Slab_put(connections, token, [ c EXCEPT !.inbuf = B ])
    /\ last' = NoLast
    /\ UNCHANGED << run, panicked, srvArmed, backlog, pending, sends,
                    attempts, balance >>

\* The sockets that are ready for something their registration asks for.
CanReport(token) ==
    IF token = ServerToken THEN backlog > 0
    ELSE \E t \in Slab_tokens(connections) :
            /\ Slab_get(connections, t).regToken = token
            /\ ReadyFor(Slab_get(connections, t)) # {}

StreamPoll ==
    \E token \in ArmedTokens : CanReport(token) /\ PollToken(token)

\* The outcomes of the system calls when none fails.
OkIO == [ NoIO EXCEPT !.acc = IF backlog > 0 THEN "some" ELSE "none" ]

ReadyOkWith(token, events) ==
    /\ ~panicked
    /\ token \in pending
    /\ events \in EventSetsOf(token)
    /\ ERROR \notin events /\ HUP \notin events
    /\ (/\ token # ServerToken
        /\ Len(Slab_get(connections, token).send_queue) >= MaxQueue)
       => WRITABLE \in events
    /\ ReadyWith(token, events, OkIO)

ReadyOk ==
    \E token \in pending : \E events \in EventSetsOf(token) :
       ReadyOkWith(token, events)

\* A poll reports a connection that asks for writable; ready is called
\* with writable for a connection.
PollWritable(token) ==
    /\ token \in Slab_tokens(connections)
    /\ WRITABLE \in Slab_get(connections, token).regInterest
    /\ PollToken(token)

ReadyWritable(token) ==
    \E events \in SUBSET {READABLE, WRITABLE} :
       WRITABLE \in events /\ ReadyOkWith(token, events)

StreamNext == ClientConnect \/ ClientStream \/ StreamPoll \/ ReadyOk

\* The scheduling: the loop calls ready for every event that was reported,
\* and a connection whose registration asks for writable is, again and
\* again, reported as writable.
StreamSpec ==
    /\ Init /\ [][StreamNext]_vars
    /\ WF_vars(ReadyOk)
    /\ \A token \in ConnTokens :
          SF_vars(PollWritable(token)) /\ SF_vars(ReadyWritable(token))

\* ------------------------------------------------------------------------
\* Properties
\* ------------------------------------------------------------------------

\* The last step was a call of ready for a connection's token / with an
\* error or hangup event.
LastConn == last.kind = "ready" /\ last.token # ServerToken
LastSrv == last.kind = "ready" /\ last.token = ServerToken
LastHup == ERROR \in last.events \/ HUP \in last.events

\* The connection of the last call of ready, before and after the call.
PreConn == Slab_get(last.pre, last.token)
PostConn == Slab_get(connections, last.token)
WasLive == Slab_contains(last.pre, last.token)
IsLive == Slab_contains(connections, last.token)

\* The last call of ready ran readable() on its connection.
RanReadable ==
    /\ LastConn /\ ~LastHup /\ READABLE \in last.events
    /\ last.tr.misses = {}

\* The last call of ready ran writable() on its connection.
RanWritable ==
    /\ LastConn /\ ~LastHup /\ WRITABLE \in last.events
    /\ WasLive

\* C1: when readable() runs on a burst B whose length is no multiple of
\* the chunk size and no read fails, the process goes on, all of B has been
\* read, and the next buffer writable() writes for this connection is B.
C1_EchoRoundTrip ==
    (/\ RanReadable
     /\ last.io.rdOk
     /\ Len(PreConn.inbuf) % ChunkSize # 0)
    => /\ ~panicked
       /\ IsLive => /\ PostConn.inbuf = <<>>
                    /\ writable(PostConn, TRUE).wrote = << PreConn.inbuf >>

\* C2: a call of ready for a connection's token neither aborts the process
\* nor shuts the loop down, and leaves every other connection as it was.
C2_FailuresContained ==
    LastConn =>
       /\ ~panicked
       /\ run = last.preRun
       /\ Slab_tokens(connections) \subseteq Slab_tokens(last.pre)
       /\ \A u \in Slab_tokens(last.pre) \ {last.token} :
             /\ Slab_contains(connections, u)
             /\ Slab_get(connections, u) = Slab_get(last.pre, u)

\* C8: the loop stops (shutdown or abort of the process) only in a call of
\* ready for the server's token, with an error or hangup event or with a
\* failed reregistration of the listening socket.
C8_ShutdownOnlyForListener ==
    (last.kind = "ready" /\ last.preRun /\ (~run \/ panicked))
    => /\ last.token = ServerToken
       /\ (LastHup \/ ~last.io.srvOk)

\* C3: while the loop runs, every socket that is not waiting for its call
\* of ready is armed: the listening socket, and every connection in the table.
\* A registration that fired has been armed again when ready returns.
C3_ReArmed ==
    (run /\ ~panicked) =>
       /\ (ServerToken \notin pending => srvArmed)
       /\ \A t \in Slab_tokens(connections) :
             t \notin pending => Slab_get(connections, t).reg = "armed"

\* accept has armed the listening socket again, next to a connection that
\* was armed again after its readable event.
C3_Witness ==
    /\ LastSrv /\ READABLE \in last.events
    /\ ~last.preSrvArmed /\ srvArmed /\ run
    /\ \E t \in Slab_tokens(connections) :
          /\ Slab_get(connections, t).send_queue # <<>>
          /\ Slab_get(connections, t).reg = "armed"

\* C4: the table never holds more than Capacity connections, and an accept
\* that finds it full prints the diagnostic and leaves the table as it was.
C4_BoundedTable ==
    /\ Slab_count(connections) <= Capacity
    /\ (/\ LastSrv /\ ~LastHup /\ READABLE \in last.events
        /\ last.io.acc = "some"
        /\ Slab_count(last.pre) = Capacity)
       => /\ connections = last.pre
          /\ "Slab is full" \in Range(last.tr.diag)

\* accept has found the table full.
C4_Witness ==
    /\ LastSrv /\ ~LastHup /\ READABLE \in last.events
    /\ last.io.acc = "some"
    /\ Slab_count(last.pre) = Capacity
    /\ Slab_count(connections) = Capacity

\* C5: no two connections of the table have the same token, and when
\* close_connection has removed a connection its token is not in the table
\* and is the token the next insertion hands out.
C5_TokenUniqueAndReused ==
    /\ \A i, j \in DOMAIN connections.entries :
          i # j => connections.entries[i].token # connections.entries[j].token
    /\ \A k \in 1..Len(last.tr.closes) :
          LET c == last.tr.closes[k] IN
          (c.token # ServerToken /\ ~c.panicked) =>
             /\ ~Slab_contains(c.after, c.token)
             /\ Slab_insert_with(c.after).some
             /\ Slab_insert_with(c.after).token = c.token

\* accept has given a new connection the token of a connection that was
\* closed, while another connection is in the table.
C5_Witness ==
    /\ LastSrv
    /\ Slab_count(connections) >= 2
    /\ \E t \in Slab_tokens(connections) \ Slab_tokens(last.pre) :
          token_to_idx(t) \in Range(last.pre.free)

\* C6: every interest set a connection submits to the event loop contains
\* writable if and only if its send_queue is not empty.
C6_WritableTracksQueue ==
    \A s \in last.tr.subs : (WRITABLE \in s[2]) <=> s[3]

\* One call of ready has submitted an interest set without writable (the
\* queue was written empty) and one with writable (a message was queued).
C6_Witness ==
    /\ last.tr.wrote # <<>>
    /\ \E s1, s2 \in last.tr.subs :
          /\ ~s1[3] /\ WRITABLE \notin s1[2]
          /\ s2[3] /\ WRITABLE \in s2[2]

\* C7: writable() writes the buffer that was queued last and removes it;
\* the buffers queued before it stay, in their order, at the head of the
\* queue (so m1..mn are written as mn, ..., m1).
C7_LastInFirstOut ==
    (RanWritable /\ PreConn.send_queue # <<>> /\ last.io.wrOk) =>
       /\ last.tr.wrote = << <<last.token, Last(PreConn.send_queue)>> >>
       /\ IsLive =>
            /\ Len(PostConn.send_queue) >= Len(PreConn.send_queue) - 1
            /\ SubSeq(PostConn.send_queue, 1, Len(PreConn.send_queue) - 1)
                  = Front(PreConn.send_queue)

\* "AA" then "BB" were queued, and writable() has written "BB".
C7_Witness ==
    /\ RanWritable
    /\ PreConn.send_queue = << AA, BB >>
    /\ last.tr.wrote = << <<last.token, BB>> >>
    /\ IsLive
    /\ PostConn.send_queue = << AA >>

\* C9: every connection in the table has a registration with the event
\* loop under the token of its slot.
C9_TableEntriesRegistered ==
    \A i \in DOMAIN connections.entries :
       /\ connections.entries[i].reg # "none"
       /\ connections.entries[i].regToken = idx_to_token(i)

\* accept has inserted a connection, its registration has failed, and the
\* connection is not in the table.
C9_Witness ==
    /\ LastSrv /\ ~LastHup /\ READABLE \in last.events
    /\ last.io.acc = "some" /\ ~last.io.regOk
    /\ Slab_count(last.pre) < Capacity
    /\ Slab_tokens(connections) = Slab_tokens(last.pre)
    /\ connections # last.pre

\* C10: close_connection for a connection's token removes the connection,
\* whatever the deregistration returned: the token is not in the table, the
\* count is one lower, the loop is not shut down.  For the server's token
\* it shuts the loop down and leaves the table as it was.
C10_CloseRemoves ==
    /\ \A k \in 1..Len(last.tr.closes) :
          LET c == last.tr.closes[k] IN
          IF c.token = ServerToken
          THEN ~c.runAfter /\ c.after = c.before
          ELSE /\ ~c.panicked
               /\ ~Slab_contains(c.after, c.token)
               /\ Slab_count(c.after) = Slab_count(c.before) - 1
               /\ c.runAfter = c.runBefore
    /\ (last.kind = "ready" /\ LastHup) =>
          IF last.token = ServerToken
          THEN ~run /\ connections = last.pre
          ELSE /\ ~panicked
               /\ ~IsLive
               /\ Slab_count(connections) = Slab_count(last.pre) - 1
               /\ run = last.preRun

\* A connection was closed on a hangup, its deregistration failed, and it
\* is not in the table.
C10_Witness ==
    /\ LastConn /\ LastHup
    /\ ~last.io.deregOk
    /\ WasLive /\ ~IsLive
    /\ "Could not deregister" \in Range(last.tr.diag)

\* C11: every interest set a connection submits to the event loop, by
\* register and by every reregister after it, contains readable; and so do
\* the interest and the registration of every connection in the table.
C11_ReadableKept ==
    /\ \A s \in last.tr.subs : READABLE \in s[2]
    /\ \A t \in Slab_tokens(connections) :
          /\ READABLE \in Slab_get(connections, t).interest
          /\ READABLE \in Slab_get(connections, t).regInterest

\* After a readable event had queued a message, a writable event has
\* written the queue empty and the connection has reregistered with
\* readable alone next to hup.
C11_Witness ==
    /\ RanWritable /\ READABLE \notin last.events
    /\ PreConn.send_queue # <<>>
    /\ IsLive /\ PostConn.send_queue = <<>>
    /\ last.tr.subs = { <<last.token, {HUP, READABLE}, FALSE>> }

\* C12: a call of ready with an event set that holds error or hangup calls
\* close_connection for its token and nothing else: no readable(), no
\* writable(), no accept(), no reregister, whatever else the event set
\* holds; nothing is read, queued or written, and no attempt is accepted.
C12_HupFirst ==
    (last.kind = "ready" /\ LastHup) =>
       /\ last.tr.calls = << "close_connection" >>
       /\ Len(last.tr.closes) = 1
       /\ last.tr.closes[1].token = last.token
       /\ last.tr.closes[1].before = last.pre
       /\ last.tr.wrote = <<>>
       /\ last.tr.subs = {}
       /\ last.tr.srvReregs = 0
       /\ last.tr.pushed = 0 /\ last.tr.popped = 0
       /\ "Received" \notin Range(last.tr.diag)
       /\ backlog = last.preBacklog
       /\ srvArmed = last.preSrvArmed
       /\ Slab_tokens(connections) = Slab_tokens(last.pre) \ {last.token}
       /\ \A u \in Slab_tokens(connections) :
             Slab_get(connections, u) = Slab_get(last.pre, u)

\* An error was reported next to readable and writable for a connection
\* with bytes to read and a message to write, and the connection is gone.
C12_Witness ==
    /\ LastConn
    /\ last.events = {ERROR, READABLE, WRITABLE}
    /\ PreConn.inbuf # <<>>
    /\ PreConn.send_queue # <<>>
    /\ ~IsLive
    /\ last.tr.calls = << "close_connection" >>

\* A step of the last call of ready has failed: writable() or the
\* reregister after it, readable() or the reregister after it.
StepFailed ==
    \/ /\ WRITABLE \in last.events
       /\ \/ PreConn.send_queue # <<>> /\ ~last.io.wrOk
          \/ ~last.io.rrOkW
    \/ /\ READABLE \in last.events
       /\ \/ ~last.io.rdOk
          \/ ~drain(PreConn.inbuf, <<>>, last.io.emptyRead).ok
          \/ ~last.io.rrOkR

\* C13: a call of ready for a connection, without error or hangup, returns:
\* with the connection removed from the table when a step has failed, and
\* with the connection in the table and armed again when none has.
C13_FailureCloses ==
    (LastConn /\ ~LastHup /\ WasLive) =>
       /\ ~panicked
       /\ StepFailed => ~IsLive
       /\ ~StepFailed => IsLive /\ PostConn.reg = "armed"

\* C14: when readable() runs on a burst whose length is a positive multiple
\* of the chunk size and nothing more is ready, the read after the last
\* full chunk fails and readable() returns the error: nothing is queued or
\* printed, the connection that is closed has its queue and its interest
\* as they were before readable() and the bytes are gone, and ready has
\* closed the connection.
C14_ExactMultipleCloses ==
    (/\ RanReadable
     /\ last.io.rdOk
     /\ Len(PreConn.inbuf) > 0
     /\ Len(PreConn.inbuf) % ChunkSize = 0
     /\ last.io.emptyRead = "wouldblock")
    => /\ ~panicked
       /\ ~IsLive
       /\ last.tr.pushed = 0
       /\ "Received" \notin Range(last.tr.diag)
       /\ Len(last.tr.calls) >= 2
       /\ SubSeq(last.tr.calls, Len(last.tr.calls) - 1, Len(last.tr.calls))
             = << "readable", "close_connection" >>
       /\ LET c0 == IF WRITABLE \in last.events
                    THEN writable(PreConn, TRUE).conn ELSE PreConn
              cb == Slab_get(Last(last.tr.closes).before, last.token)
          IN /\ cb.send_queue = c0.send_queue
             /\ cb.interest = c0.interest
             /\ cb.inbuf = <<>>

\* A connection with a message queued has received a burst of exactly one
\* chunk, and the readable event has closed it.
C14_Witness ==
    /\ LastConn /\ last.events = {READABLE}
    /\ last.io.rdOk /\ last.io.emptyRead = "wouldblock"
    /\ PreConn.inbuf = Rep(ChunkSize, 66)
    /\ PreConn.send_queue # <<>>
    /\ ~IsLive

\* The last call of ready has called accept.
RanAccept == LastSrv /\ "accept" \in Range(last.tr.calls)

\* C15: accept calls the server's reregister once, as its last step, on
\* each of its paths; and while the loop runs, a connection attempt that
\* waits on the listening socket leads to a call of accept.
C15_AcceptReArms ==
    /\ [](RanAccept =>
            /\ last.tr.srvReregs = 1
            /\ Last(last.tr.calls) = "Server::reregister"
            /\ (run => srvArmed))
    /\ ((backlog > 0 /\ run /\ ~panicked) ~> (RanAccept \/ ~run \/ panicked))

\* accept has run into an accept error, has armed the listening socket
\* again, and the connection attempt is still waiting.
C15_Witness ==
    /\ RanAccept
    /\ last.io.acc = "err"
    /\ backlog > 0
    /\ ~last.preSrvArmed /\ srvArmed /\ run
    /\ last.tr.calls = << "accept", "Server::reregister" >>

\* C16: ready calls writable() only for a connection with a message
\* queued, and no registration asks for writable while the queue is empty;
\* and writable() on an empty queue returns Ok, writes nothing and leaves
\* the connection as it is.
C16_WritableHasMessage ==
    /\ "writable" \in Range(last.tr.calls) => PreConn.send_queue # <<>>
    /\ \A t \in Slab_tokens(connections) :
          LET c == Slab_get(connections, t) IN
          c.send_queue = <<>> =>
             /\ WRITABLE \notin c.regInterest
             /\ \A wrOk \in BOOLEAN :
                   writable(c, wrOk) = [ ok |-> TRUE, conn |-> c, wrote |-> <<>> ]

\* writable() has written the one message of a connection, next to a
\* connection whose queue is empty.
C16_Witness ==
    /\ LastConn /\ last.events = {WRITABLE}
    /\ last.tr.calls = << "writable", "reregister" >>
    /\ Len(PreConn.send_queue) = 1
    /\ \E t \in Slab_tokens(connections) \ {last.token} :
          Slab_get(connections, t).send_queue = <<>>

\* C17: for every connection in the table the length of the queue is the
\* number of calls of readable() that returned Ok less the number of calls
\* of writable() that found a buffer.  A call of readable() that returns
\* Ok has put the bytes it read, as one buffer, at the tail of the queue
\* and asked for writable (an empty buffer when it read nothing); a call
\* of writable() on a queue that is not empty takes one buffer off and
\* writes this buffer, whole.
C17_OneMessagePerEvent ==
    /\ \A t \in Slab_tokens(connections) :
          LET c == Slab_get(connections, t) IN
          /\ Len(c.send_queue) = balance[t]
          /\ c.inbuf = <<>> =>
                readable(c, TRUE, "eof") =
                   [ ok |-> TRUE, panic |-> FALSE,
                     conn |-> [ c EXCEPT !.send_queue = Append(@, <<>>),
                                         !.interest = @ \cup {WRITABLE} ] ]
    /\ (LastConn /\ WasLive /\ IsLive /\ ~panicked) =>
          LET q0 == IF "writable" \in Range(last.tr.calls)
                    THEN Front(PreConn.send_queue) ELSE PreConn.send_queue
              B == drain(PreConn.inbuf, <<>>, last.io.emptyRead).buffer_list
          IN /\ last.tr.pushed = 1 =>
                   /\ PostConn.send_queue = Append(q0, B)
                   /\ WRITABLE \in PostConn.interest
             /\ last.tr.pushed = 0 => PostConn.send_queue = q0
             /\ last.tr.popped = 1 =>
                   last.tr.wrote = << <<last.token, Last(PreConn.send_queue)>> >>
             /\ last.tr.popped = 0 => last.tr.wrote = <<>>

\* One call of ready has written the one message of a connection and has
\* queued the bytes it read: as many messages are queued as before.
C17_Witness ==
    /\ LastConn /\ IsLive
    /\ last.tr.pushed = 1 /\ last.tr.popped = 1
    /\ Len(PreConn.send_queue) = 1
    /\ Len(PostConn.send_queue) = 1
    /\ balance[last.token] = 1
    /\ PostConn.send_queue = << PreConn.inbuf >>

\* C18: every lookup of a connection by its token, in ready and in
\* close_connection, finds the connection in the table: no call of ready
\* indexes the table with a token that is not in it.
C18_LookupsHit ==
    last.tr.misses = {}

\* C19: in the runs in which nothing fails and, from some time on, every
\* event that is reported for a connection holds writable, a message that
\* is queued for the connection is written at some time, however much the
\* client sends after it.
C19_EveryMessageWritten ==
    \A token \in ConnTokens :
       <>[]((last.kind = "ready" /\ last.token = token)
               => WRITABLE \in last.events)
       => ((/\ Slab_contains(connections, token)
            /\ AA \in Range(Slab_get(connections, token).send_queue))
           ~> (<<token, AA>> \in Range(last.tr.wrote)))

\* C20: no connection of the table has the token of the server: the tokens
\* of the table, and the token every connection holds and registers with,
\* start at SlabOffset, above ServerToken.  So ready calls accept exactly
\* for a readable event of the server's token, and calls readable() and
\* writable() for other tokens only.
C20_ServerTokenReserved ==
    /\ ServerToken \notin Slab_tokens(connections)
    /\ \A i \in DOMAIN connections.entries :
          /\ idx_to_token(i) >= SlabOffset
          /\ connections.entries[i].token # ServerToken
          /\ connections.entries[i].regToken # ServerToken
    /\ last.kind = "ready" =>
          /\ "accept" \in Range(last.tr.calls)
                <=> (last.token = ServerToken /\ ~LastHup
                       /\ READABLE \in last.events)
          /\ ("readable" \in Range(last.tr.calls)
                \/ "writable" \in Range(last.tr.calls))
                => last.token # ServerToken

\* With a connection in the table, a readable event of the server's token
\* has gone to accept, which has put a second connection into the table.
C20_Witness ==
    /\ RanAccept
    /\ Slab_count(last.pre) = 1
    /\ Slab_count(connections) = 2
    /\ last.tr.calls = << "accept", "Server::reregister" >>
    /\ ServerToken \notin Slab_tokens(connections)

====
